---- MODULE Spec2Model ----
(***************************************************************************)
(* A model of the PromptPipe LangChain agent: the SQLite state manager,    *)
(* the conversation orchestrator, the coordinator / intake / feedback      *)
(* handlers and the tools the agent can run during a turn.                 *)
(*                                                                         *)
(* Every store operation is one atomic step (one SQL statement on its own  *)
(* connection), so route calls interleave at that granularity.             *)
(***************************************************************************)
EXTENDS Integers, Sequences, FiniteSets, TLC

\* ------------------------------------------------------------------ bounds
MaxCalls == 2
MaxToolCalls == 1
MaxClock == 1
MaxExternal == 1
MaxProfileOps == 2
MaxStoreOps == 3
MaxLimit == 3

\* ------------------------------------------------------------- input sets
Participants == {"p1", "p2"}
Calls == {"c1", "c2"}
Direct == {"t1", "t2"}
Tasks == Calls \cup Direct
UserMessages == <<"hi", "hello">>
Responses == {"reply"}
None == "None"
NoRow == "NoRow"

\* ---------------------------------------------------------------- schemas
\* class ConversationState(str, Enum)
ConversationState == {"COORDINATOR", "INTAKE", "FEEDBACK", "CONVERSATION_ACTIVE"}

\* a label the enumeration does not hold
UnknownLabel == "INVALID_STATE"

\* the labels a tool caller or another process may hand in
Labels == ConversationState \cup {UnknownLabel}

\* class MessageRole(str, Enum)
MessageRole == {"user", "assistant", "system"}

\* the five personalization fields of UserProfile
ProfileFields == {"habit_domain", "prompt_anchor", "motivational_frame",
                  "preferred_time", "other_personalization"}

FieldValues == {"fitness", "coffee"}

\* the arguments of one profile save: every field a value or None; the saves
\* explored provide at most two of the five fields
ProfileArgs ==
    {args \in [ProfileFields -> FieldValues \cup {None}] :
        Cardinality({f \in ProfileFields : args[f] # None}) <= 2}

\* the argument records the agent picks from during a turn
AgentProfileArgs == {[f \in ProfileFields |-> IF f = g THEN v ELSE None] :
                        g \in {"habit_domain"}, v \in {"fitness"}}

\* UserProfile(participant_id=..., **fields): created_at / updated_at default
\* to datetime.now()
UserProfile(fields, created, updated) ==
    [fields |-> fields, created_at |-> created, updated_at |-> updated]

\* UserProfile.to_context_string: the truthy fields, in declaration order
to_context_string(profile) ==
    LET order == <<"habit_domain", "prompt_anchor", "motivational_frame",
                   "preferred_time", "other_personalization">>
        truthy(f) == profile.fields[f] # None /\ profile.fields[f] # ""
        parts == SelectSeq(order, truthy)
    IN  IF parts = <<>> THEN <<"No profile data available.">>
        ELSE [i \in 1..Len(parts) |-> parts[i] \o ": " \o profile.fields[parts[i]]]

\* --------------------------------------------------------------- the store
VARIABLES
    flow_states,           \* participant -> stored label, or NoRow
    conversation_history,  \* participant -> rows in insertion (rowid) order
    user_profiles,         \* participant -> <<>> or <<row>>
    flow_state_data,       \* participant -> key -> <<>> or <<value>>
    clock                  \* datetime('now') / datetime.now()

\* ------------------------------------------------------- program positions
VARIABLES
    calls,                 \* one record per route call slot
    profile_save,          \* one record per ProfileSaveTool._run in progress
    tool_result            \* what the last tool run was given and returned

\* --------------------------------------------------------- history (ghost)
VARIABLES
    started,               \* route calls started so far
    external,              \* writes by the other process / direct tool runs
    profile_ops,           \* profile writes begun so far
    log,                   \* participant -> <<message, response, handler, transition
                           \* carried out>> of returned calls
    sequential,            \* participant -> only one-at-a-time route calls wrote history
    merged,                \* participant -> field -> value the merges should leave
    merges_sequential      \* participant -> no two profile writers overlapped

store == <<flow_states, conversation_history, user_profiles, flow_state_data, clock>>
vars == <<flow_states, conversation_history, user_profiles, flow_state_data, clock,
          calls, profile_save, tool_result,
          started, external, profile_ops, log, sequential, merged, merges_sequential>>

\* a variant of IsConversationState: only the three states the tool's texts name
IsConversationState_Three(label) == label \in {"COORDINATOR", "INTAKE", "FEEDBACK"}

\* ConversationState(row[0]): ValueError on a label outside the enumeration
IsConversationState(label) == label \in ConversationState

\* a variant of get_current_state_raises: the label is returned undecoded
get_current_state_raises_Never(fs, p) == FALSE

\* get_current_state: None without a row; raises on an unknown label
get_current_state_raises(fs, p) == fs[p] # NoRow /\ ~IsConversationState(fs[p])
get_current_state(fs, p) == IF fs[p] = NoRow THEN None ELSE fs[p]

\* a variant of set_current_state: ON CONFLICT DO NOTHING
set_current_state_InsertOnly(fs, p, state) ==
    IF fs[p] = NoRow THEN [fs EXCEPT ![p] = state] ELSE fs

\* set_current_state: INSERT ... ON CONFLICT(participant_id, flow_type) DO UPDATE SET
\* state = excluded.state; the key of the table is what fs is indexed by
set_current_state(fs, p, state) == [fs EXCEPT ![p] = state]

\* a variant of OrderByTimestamp: a row comes before the earlier rows of its second
RECURSIVE OrderByTimestamp_TiesReversed(_)
OrderByTimestamp_TiesReversed(rows) ==
    IF rows = <<>> THEN <<>>
    ELSE LET last == rows[Len(rows)]
             init == OrderByTimestamp_TiesReversed(SubSeq(rows, 1, Len(rows) - 1))
             keep == SelectSeq(init, LAMBDA r : r.timestamp < last.timestamp)
             move == SelectSeq(init, LAMBDA r : r.timestamp >= last.timestamp)
         IN  keep \o <<last>> \o move

\* a variant of OrderByTimestamp: ORDER BY timestamp DESC
RECURSIVE OrderByTimestamp_Desc(_)
OrderByTimestamp_Desc(rows) ==
    IF rows = <<>> THEN <<>>
    ELSE LET last == rows[Len(rows)]
             init == OrderByTimestamp_Desc(SubSeq(rows, 1, Len(rows) - 1))
             keep == SelectSeq(init, LAMBDA r : r.timestamp >= last.timestamp)
             move == SelectSeq(init, LAMBDA r : r.timestamp < last.timestamp)
         IN  keep \o <<last>> \o move

\* ORDER BY timestamp ASC over the rows in rowid order (SQLite's sorter keeps
\* the scan order of rows with equal keys)
RECURSIVE OrderByTimestamp(_)
OrderByTimestamp(rows) ==
    IF rows = <<>> THEN <<>>
    ELSE LET last == rows[Len(rows)]
             init == OrderByTimestamp(SubSeq(rows, 1, Len(rows) - 1))
             keep == SelectSeq(init, LAMBDA r : r.timestamp <= last.timestamp)
             move == SelectSeq(init, LAMBDA r : r.timestamp > last.timestamp)
         IN  keep \o <<last>> \o move

\* get_conversation_history: ConversationHistory(messages=[...])
get_conversation_history(ch, p) == OrderByTimestamp(ch[p])

\* a variant of add_message: the participant's rows are rewritten (DELETE, then INSERT)
add_message_Rewrite(ch, p, role, content, now) ==
    [ch EXCEPT ![p] = <<[role |-> role, content |-> content, timestamp |-> now]>>]

\* a variant of add_message: every row is stored with the USER role
add_message_AsUser(ch, p, role, content, now) ==
    [ch EXCEPT ![p] = Append(@, [role |-> "user", content |-> content, timestamp |-> now])]

\* a variant of add_message: the INSERT is never committed
add_message_Lost(ch, p, role, content, now) == ch

\* add_message: INSERT ... VALUES (?, ?, ?, datetime('now'))
add_message(ch, p, role, content, now) ==
    [ch EXCEPT ![p] = Append(@, [role |-> role, content |-> content, timestamp |-> now])]

\* a variant of ParseProfile: the decoded JSON object is handed on as it is
ParseProfile_Raw(data) == data

\* json.loads + UserProfile(participant_id=..., **data): a missing key is None,
\* a key the model does not declare is ignored
ParseProfile(data) ==
    [f \in ProfileFields |-> IF f \in DOMAIN data THEN data[f] ELSE None]

\* get_user_profile: None without a row
has_user_profile(up, p) == up[p] # <<>>
get_user_profile(up, p, now) == UserProfile(ParseProfile(up[p][1].profile_data), now, now)

\* profile.model_dump(exclude={"participant_id", "created_at", "updated_at"})
model_dump_exclude(profile) == [f \in ProfileFields |-> profile.fields[f]]

\* a variant of save_user_profile: the upsert keeps the stored value of a field
\* the new record leaves unset
save_user_profile_Merge(up, p, profile, now) ==
    [up EXCEPT ![p] =
        <<[profile_data |->
              [f \in ProfileFields |->
                  IF profile.fields[f] = None /\ up[p] # <<>>
                  THEN ParseProfile(up[p][1].profile_data)[f]
                  ELSE profile.fields[f]],
           updated_at |-> now]>>]

\* save_user_profile: INSERT ... ON CONFLICT DO UPDATE SET profile_data = excluded.profile_data
save_user_profile(up, p, profile, now) ==
    [up EXCEPT ![p] = <<[profile_data |-> model_dump_exclude(profile), updated_at |-> now]>>]

\* get_state_data / set_state_data
StateDataKeys == {"schedule", "notes"}

\* json.dumps(value): the text stored in the value column; None becomes "null"
json_dumps(value) == <<"json", value>>

\* json.loads(text)
json_loads(text) == text[2]

\* `if row and row[0]`: a row whose value column holds a non-empty text
get_state_data(sd, p, key) ==
    IF sd[p][key] = <<>> \/ sd[p][key][1] = <<>> THEN None ELSE json_loads(sd[p][key][1])

\* a variant of set_state_data: the WHERE of the upsert leaves out the key
set_state_data_AllKeys(sd, p, key, value) ==
    [sd EXCEPT ![p] = [k \in StateDataKeys |-> <<json_dumps(value)>>]]

\* INSERT ... ON CONFLICT(participant_id, flow_type, key) DO UPDATE SET value = excluded.value
set_state_data(sd, p, key, value) == [sd EXCEPT ![p][key] = <<json_dumps(value)>>]

\* datetime('now'): the wall clock read at the write, never running backwards
Now == {t \in {clock, clock + 1} : t <= MaxClock}


\* ------------------------------------------------------------ route calls
IdleCall ==
    [pc |-> "idle", participant_id |-> "p1", user_message |-> "hi",
     read_state |-> None, current_state |-> None, handler |-> "none",
     chat_history |-> <<>>, input |-> <<>>, tool_calls |-> 0,
     response |-> "", updated_state |-> None, error |-> "none",
     state_before |-> NoRow, requested |-> None, invalid_requested |-> FALSE,
     touched |-> FALSE, gen_failed |-> FALSE,
     store_failed |-> FALSE, history_before |-> 0]

IdleSave ==
    [pc |-> "idle", participant_id |-> "p1",
     args |-> [f \in ProfileFields |-> None], existing |-> <<>>]

NoResult == [tool |-> "none", caller |-> "none", participant_id |-> "p1", arg |-> None,
             failed |-> FALSE, result |-> "none", before |-> NoRow]

Active(c) == calls[c].pc \notin {"idle", "returned", "raised"}
InHandler(c) ==
    calls[c].pc \in {"get_history", "get_profile", "add_user", "agent",
                     "tool_profile", "add_assistant"}

\* the calls, other than c, that are in flight for participant p
Others(c, p) == {d \in Calls \ {c} : Active(d) /\ calls[d].participant_id = p}

\* calls after a write to p's conversation state made by somebody other than c:
\* every other call for p, in flight or ended, has had another writer since it began
Touch(cs, c, p) ==
    [d \in Calls |->
        IF d # c /\ cs[d].pc # "idle" /\ cs[d].participant_id = p
        THEN [cs[d] EXCEPT !.touched = TRUE] ELSE cs[d]]

\* a variant of NeedsDefault: CONVERSATION_ACTIVE is taken for a missing state too
NeedsDefault_OrActive(current_state) == current_state \in {None, "CONVERSATION_ACTIVE"}

\* a variant of NeedsDefault: the default branch is never taken
NeedsDefault_Never(current_state) == FALSE

\* process_message, line 51: if current_state is None
NeedsDefault(current_state) == current_state = None

\* a variant of DefaultState: another member of the enumeration is written
DefaultState_Active == "CONVERSATION_ACTIVE"

\* line 52: current_state = ConversationState.COORDINATOR
DefaultState == "COORDINATOR"

\* a variant of Dispatch: the FEEDBACK branch is missing
Dispatch_NoFeedback(current_state) ==
    IF current_state = "INTAKE" THEN "intake" ELSE "coordinator"

\* process_message, lines 55-61: the handler the state selects
Dispatch(current_state) ==
    IF current_state = "INTAKE" THEN "intake"
    ELSE IF current_state = "FEEDBACK" THEN "feedback"
    ELSE "coordinator"

\* FeedbackAgent (agents/feedback_agent.py) is imported by the orchestrator; it is
\* modelled on the handler contract: the steps of the other handlers, with the
\* transition capability
FeedbackTools == {"transition_state"}

\* IntakeAgent._create_tools: the tools handed to the AgentExecutor
IntakeTools == {"transition_state", "save_user_profile",
                "schedule_daily_prompt", "generate_habit_prompt"}

\* a variant of CoordinatorTools: the four tool objects the coordinator builds are
\* handed to generation
CoordinatorTools_Bound == {"transition_state", "save_user_profile",
                           "schedule_daily_prompt", "generate_habit_prompt"}

\* CoordinatorAgent._create_tools returns []: llm.invoke runs no tool
CoordinatorTools == {}

\* the tools each handler's generation step can run
HandlerTools(handler) ==
    CASE handler = "intake" -> IntakeTools
      [] handler = "feedback" -> FeedbackTools
      [] OTHER -> CoordinatorTools

\* settings.chat_history_limit (default)
chat_history_limit == -1

\* hist_messages[-settings.chat_history_limit:] when the limit is positive
LimitHistory(messages, limit) ==
    IF limit > 0
    THEN SubSeq(messages, IF Len(messages) > limit THEN Len(messages) - limit + 1 ELSE 1,
                Len(messages))
    ELSE messages

\* a variant of ToChat: SYSTEM rows are handed on as well
ToChat_WithSystem(messages) ==
    [i \in 1..Len(messages) |->
        <<IF messages[i].role = "user" THEN "human"
          ELSE IF messages[i].role = "assistant" THEN "ai" ELSE "system",
          messages[i].content>>]

\* the loop over the history: USER -> human, ASSISTANT -> ai, anything else skipped
ToChat(messages) ==
    LET kept == SelectSeq(messages, LAMBDA m : m.role \in {"user", "assistant"})
    IN  [i \in 1..Len(kept) |->
            <<IF kept[i].role = "user" THEN "human" ELSE "ai", kept[i].content>>]

\* f"I apologize, but I encountered an error: {str(e)}"
Apology == "I apologize, but I encountered an error"

Raise(c, err) == [calls EXCEPT ![c].pc = "raised", ![c].error = err]

\* a route call ending with an exception leaves the one-at-a-time regime
Raised(c, err) ==
    /\ calls' = Raise(c, err)
    /\ sequential' = [sequential EXCEPT ![calls[c].participant_id] = FALSE]

\* ConversationOrchestrator.process_message is entered
RouteStart(c, p, m) ==
    /\ ~Active(c)
    /\ started < MaxCalls
    /\ started' = started + 1
    /\ calls' = [calls EXCEPT ![c] = [IdleCall EXCEPT !.pc = "get_state",
                                        !.participant_id = p, !.user_message = m,
                                        !.state_before = flow_states[p],
                                        !.history_before = Len(conversation_history[p])]]
    /\ sequential' = [sequential EXCEPT ![p] = @ /\ Others(c, p) = {}]
    /\ tool_result' = NoResult
    /\ UNCHANGED <<store, profile_save, external, profile_ops, log, merged, merges_sequential>>

\* a variant of RouteGetState: the call holds a per-participant lock for its whole
\* duration, so its first statement waits until no other call for the participant
\* is in flight
RouteGetState_Locked(c) ==
    /\ calls[c].pc = "get_state"
    /\ Others(c, calls[c].participant_id) = {}
    /\ LET p == calls[c].participant_id
           s == get_current_state(flow_states, p)
       IN  \/ Raised(c, "StoreUnavailable")
           \/ /\ get_current_state_raises(flow_states, p)
              /\ Raised(c, "ValueError")
           \/ /\ ~get_current_state_raises(flow_states, p)
              /\ calls' = [calls EXCEPT ![c].read_state = s,
                              ![c].current_state = s,
                              ![c].handler = IF NeedsDefault(s) THEN "none" ELSE Dispatch(s),
                              ![c].pc = IF NeedsDefault(s) THEN "set_default" ELSE "get_history"]
              /\ UNCHANGED sequential
    /\ tool_result' = NoResult
    /\ UNCHANGED <<store, profile_save, started, external, profile_ops, log, merged, merges_sequential>>

\* line 48: current_state = get_current_state(participant_id)
RouteGetState(c) ==
    /\ calls[c].pc = "get_state"
    /\ LET p == calls[c].participant_id
           s == get_current_state(flow_states, p)
       IN  \/ Raised(c, "StoreUnavailable")
           \/ /\ get_current_state_raises(flow_states, p)
              /\ Raised(c, "ValueError")
           \/ /\ ~get_current_state_raises(flow_states, p)
              /\ calls' = [calls EXCEPT ![c].read_state = s,
                              ![c].current_state = s,
                              ![c].handler = IF NeedsDefault(s) THEN "none" ELSE Dispatch(s),
                              ![c].pc = IF NeedsDefault(s) THEN "set_default" ELSE "get_history"]
              /\ UNCHANGED sequential
    /\ tool_result' = NoResult
    /\ UNCHANGED <<store, profile_save, started, external, profile_ops, log, merged, merges_sequential>>

\* lines 51-53: the default is written, then routing proceeds
RouteSetDefault(c) ==
    /\ calls[c].pc = "set_default"
    /\ LET p == calls[c].participant_id
       IN  \/ /\ Raised(c, "StoreUnavailable")
              /\ UNCHANGED flow_states
           \/ /\ flow_states' = set_current_state(flow_states, p, DefaultState)
              /\ calls' = [Touch(calls, c, p) EXCEPT ![c].current_state = DefaultState,
                              ![c].handler = Dispatch(DefaultState),
                              ![c].pc = "get_history"]
              /\ UNCHANGED sequential
    /\ tool_result' = NoResult
    /\ UNCHANGED <<conversation_history, user_profiles, flow_state_data, clock,
                   profile_save, started, external, profile_ops, log, merged, merges_sequential>>

\* the handler's first statement: history = get_conversation_history(participant_id),
\* then the message list built from it
HandlerGetHistory(c) ==
    /\ calls[c].pc = "get_history"
    /\ LET p == calls[c].participant_id
           history == get_conversation_history(conversation_history, p)
       IN  \/ Raised(c, "StoreUnavailable")
           \/ /\ calls' = [calls EXCEPT
                    ![c].chat_history = ToChat(LimitHistory(history, chat_history_limit)),
                    ![c].input = <<calls[c].user_message>>,
                    ![c].pc = IF calls[c].handler = "intake" THEN "get_profile" ELSE "add_user"]
              /\ UNCHANGED sequential
    /\ tool_result' = NoResult
    /\ UNCHANGED <<store, profile_save, started, external, profile_ops, log, merged, merges_sequential>>

\* IntakeAgent.process_message: profile = get_user_profile(participant_id) and the
\* input enhanced with its context string
HandlerGetProfile(c) ==
    /\ calls[c].pc = "get_profile"
    /\ LET p == calls[c].participant_id
       IN  \/ Raised(c, "StoreUnavailable")
           \/ /\ \E now \in {clock} :
                    calls' = [calls EXCEPT
                        ![c].input = IF has_user_profile(user_profiles, p)
                                     THEN <<calls[c].user_message>> \o
                                          to_context_string(get_user_profile(user_profiles, p, now))
                                     ELSE <<calls[c].user_message>>,
                        ![c].pc = "add_user"]
              /\ UNCHANGED sequential
    /\ tool_result' = NoResult
    /\ UNCHANGED <<store, profile_save, started, external, profile_ops, log, merged, merges_sequential>>

\* a variant of user_content: the text sent to generation is recorded
user_content_Enhanced(user_message, input) ==
    IF Len(input) > 1
    THEN user_message \o "\n\nCurrent Profile:\n" \o input[2]
    ELSE user_message

\* the content argument of the handler's first add_message: user_message, not the
\* enhanced input
user_content(user_message, input) == user_message

\* add_message(participant_id, MessageRole.USER.value, user_message)
HandlerAddUser(c) ==
    /\ calls[c].pc = "add_user"
    /\ LET p == calls[c].participant_id
       IN  \/ /\ Raised(c, "StoreUnavailable")
              /\ UNCHANGED <<conversation_history, clock>>
           \/ /\ \E now \in Now :
                    /\ clock' = now
                    /\ conversation_history' =
                          add_message(conversation_history, p, "user",
                                      user_content(calls[c].user_message, calls[c].input), now)
              /\ calls' = [calls EXCEPT ![c].pc = "agent"]
              /\ UNCHANGED sequential
    /\ tool_result' = NoResult
    /\ UNCHANGED <<flow_states, user_profiles, flow_state_data,
                   profile_save, started, external, profile_ops, log, merged, merges_sequential>>

\* llm.invoke / agent.invoke returns its output
AgentFinish(c, out) ==
    /\ calls[c].pc = "agent"
    /\ calls' = [calls EXCEPT ![c].response = out, ![c].pc = "add_assistant"]
    /\ tool_result' = NoResult
    /\ UNCHANGED <<store, profile_save, started, external, profile_ops, log, sequential, merged, merges_sequential>>

\* llm.invoke / agent.invoke raises: except Exception -> the apology text
AgentRaise(c) ==
    /\ calls[c].pc = "agent"
    /\ calls' = [calls EXCEPT ![c].response = Apology, ![c].gen_failed = TRUE,
                              ![c].pc = "add_assistant"]
    /\ tool_result' = NoResult
    /\ UNCHANGED <<store, profile_save, started, external, profile_ops, log, sequential, merged, merges_sequential>>

\* add_message(participant_id, MessageRole.ASSISTANT.value, response)
HandlerAddAssistant(c) ==
    /\ calls[c].pc = "add_assistant"
    /\ LET p == calls[c].participant_id
       IN  \/ /\ Raised(c, "StoreUnavailable")
              /\ UNCHANGED <<conversation_history, clock>>
           \/ /\ \E now \in Now :
                    /\ clock' = now
                    /\ conversation_history' =
                          add_message(conversation_history, p, "assistant", calls[c].response, now)
              /\ calls' = [calls EXCEPT ![c].pc = "reread"]
              /\ UNCHANGED sequential
    /\ tool_result' = NoResult
    /\ UNCHANGED <<flow_states, user_profiles, flow_state_data,
                   profile_save, started, external, profile_ops, log, merged, merges_sequential>>

\* a variant of updated_state: the state read before the handler is returned
updated_state_Stale(fs, p, current_state) == current_state

\* lines 63-64: the state returned is read again after the handler
updated_state(fs, p, current_state) == get_current_state(fs, p)

\* lines 63-66: updated_state = get_current_state(participant_id); return
RouteReread(c) ==
    /\ calls[c].pc = "reread"
    /\ LET p == calls[c].participant_id
       IN  \/ /\ Raised(c, "StoreUnavailable")
              /\ UNCHANGED log
           \/ /\ get_current_state_raises(flow_states, p)
              /\ Raised(c, "ValueError")
              /\ UNCHANGED log
           \/ /\ ~get_current_state_raises(flow_states, p)
              /\ calls' = [calls EXCEPT
                    ![c].updated_state = updated_state(flow_states, p, calls[c].current_state),
                                        ![c].pc = "returned"]
              /\ log' = [log EXCEPT ![p] = Append(@, <<calls[c].user_message, calls[c].response,
                                                      calls[c].handler, calls[c].requested>>)]
              /\ UNCHANGED sequential
    /\ tool_result' = NoResult
    /\ UNCHANGED <<store, profile_save, started, external, profile_ops, merged, merges_sequential>>


\* ------------------------------------------------------------------ tools
\* a variant of StateTransitionTool_run: the label is written before it is validated
StateTransitionTool_run_Unchecked(fs, q, new_state, fail) ==
    IF fail
    THEN [flow_states |-> fs, result |-> "Error transitioning state"]
    ELSE [flow_states |-> set_current_state(fs, q, new_state),
          result |-> IF IsConversationState(new_state)
                     THEN "Successfully transitioned" ELSE "Error: Invalid state"]

\* StateTransitionTool._run: ConversationState(new_state), set_current_state,
\* and the three return texts
StateTransitionTool_run(fs, q, new_state, fail) ==
    IF ~IsConversationState(new_state)
    THEN [flow_states |-> fs, result |-> "Error: Invalid state"]
    ELSE IF fail
    THEN [flow_states |-> fs, result |-> "Error transitioning state"]
    ELSE [flow_states |-> set_current_state(fs, q, new_state),
          result |-> "Successfully transitioned"]

ToolGuard(c, tool) ==
    /\ calls[c].pc = "agent"
    /\ tool \in HandlerTools(calls[c].handler)
    /\ calls[c].tool_calls < MaxToolCalls

\* the agent runs transition_state(participant_id = q, new_state = label)
Agent_transition_state(c, q, label) ==
    /\ ToolGuard(c, "transition_state")
    /\ \E fail \in BOOLEAN :
        LET run == StateTransitionTool_run(flow_states, q, label, fail)
            ok == run.result = "Successfully transitioned"
            mine == q = calls[c].participant_id
        IN  /\ flow_states' = run.flow_states
            /\ tool_result' = [tool |-> "transition_state", caller |-> c,
                               participant_id |-> q, arg |-> label, failed |-> fail,
                               result |-> run.result, before |-> flow_states[q]]
            /\ calls' = [(IF ok THEN Touch(calls, c, q) ELSE calls) EXCEPT
                            ![c].tool_calls = @ + 1,
                            ![c].requested = IF ok /\ mine THEN label ELSE @,
                            ![c].invalid_requested = @ \/ (mine /\ ~IsConversationState(label)),
                            ![c].store_failed = @ \/ run.result = "Error transitioning state",
                            ![c].touched = @ \/ (ok /\ ~mine)]
    /\ UNCHANGED <<conversation_history, user_profiles, flow_state_data, clock,
                   profile_save, started, external, profile_ops, log, sequential,
                   merged, merges_sequential>>

\* StateTransitionTool._run called on its own, as the unit tests do
Direct_transition_state(q, label) ==
    /\ external < MaxExternal
    /\ external' = external + 1
    /\ \E fail \in BOOLEAN :
        LET run == StateTransitionTool_run(flow_states, q, label, fail)
        IN  /\ flow_states' = run.flow_states
            /\ tool_result' = [tool |-> "transition_state", caller |-> "direct",
                               participant_id |-> q, arg |-> label, failed |-> fail,
                               result |-> run.result, before |-> flow_states[q]]
            /\ calls' = IF run.result = "Successfully transitioned"
                        THEN Touch(calls, "none", q) ELSE calls
    /\ UNCHANGED <<conversation_history, user_profiles, flow_state_data, clock,
                   profile_save, started, profile_ops, log, sequential,
                   merged, merges_sequential>>

\* the other process sharing the database writes a flow_states row
ExternalSetState(q, label) ==
    /\ external < MaxExternal
    /\ external' = external + 1
    /\ flow_states' = [flow_states EXCEPT ![q] = label]
    /\ calls' = Touch(calls, "none", q)
    /\ tool_result' = NoResult
    /\ UNCHANGED <<conversation_history, user_profiles, flow_state_data, clock,
                   profile_save, started, profile_ops, log, sequential,
                   merged, merges_sequential>>

\* SchedulerTool._run: schedule_data, set_state_data(participant_id, "schedule", ...)
ScheduleTimes == {"8am"}
ScheduleMessages == {None, "stretch"}
schedule_data(time, message) ==
    [time |-> time,
     message |-> IF message = None \/ message = "" THEN "personalized" ELSE message,
     enabled |-> TRUE]

SchedulerTool_run(sd, q, time, message, fail) ==
    IF fail
    THEN [flow_state_data |-> sd, result |-> "Error scheduling prompt"]
    ELSE [flow_state_data |-> set_state_data(sd, q, "schedule", schedule_data(time, message)),
          result |-> "Daily prompt scheduled"]

\* the agent runs schedule_daily_prompt(participant_id = q, time, message)
Agent_schedule_daily_prompt(c, q, time, message) ==
    /\ ToolGuard(c, "schedule_daily_prompt")
    /\ \E fail \in BOOLEAN :
        LET run == SchedulerTool_run(flow_state_data, q, time, message, fail)
        IN  /\ flow_state_data' = run.flow_state_data
            /\ tool_result' = [tool |-> "schedule_daily_prompt", caller |-> c,
                               participant_id |-> q, arg |-> time, failed |-> fail,
                               result |-> run.result, before |-> flow_state_data[q]]
            /\ calls' = [calls EXCEPT ![c].tool_calls = @ + 1,
                                      ![c].store_failed = @ \/ fail]
    /\ UNCHANGED <<flow_states, conversation_history, user_profiles, clock,
                   profile_save, started, external, profile_ops, log, sequential,
                   merged, merges_sequential>>

\* SchedulerTool._run called on its own
Direct_schedule_daily_prompt(q, time, message) ==
    /\ external < MaxStoreOps
    /\ external' = external + 1
    /\ \E fail \in BOOLEAN :
        LET run == SchedulerTool_run(flow_state_data, q, time, message, fail)
        IN  /\ flow_state_data' = run.flow_state_data
            /\ tool_result' = [tool |-> "schedule_daily_prompt", caller |-> "direct",
                               participant_id |-> q, arg |-> <<time, message>>,
                               failed |-> fail, result |-> run.result,
                               before |-> flow_state_data[q]]
    /\ UNCHANGED <<flow_states, conversation_history, user_profiles, clock,
                   calls, profile_save, started, profile_ops, log, sequential,
                   merged, merges_sequential>>

\* PromptGeneratorTool._run: the default prompt without a profile or on any
\* exception, the generated text otherwise; nothing is written
\* a variant of PromptGeneratorTool_run: a failure is reported as an error text, as
\* the other tools do
PromptGeneratorTool_run_ErrorText(up, q, fail, generated) ==
    IF fail THEN "Error generating prompt"
    ELSE IF ~has_user_profile(up, q) THEN "If your phone buzzes, take 50 steps"
    ELSE generated

DefaultPrompt == "If your phone buzzes, take 50 steps"
PromptGeneratorTool_run(up, q, fail, generated) ==
    IF fail \/ ~has_user_profile(up, q) THEN DefaultPrompt ELSE generated

\* lines 69-88: llm.invoke is reached when the profile read returned a profile
PromptGeneratorTool_invokes(up, q, read_fails) == ~read_fails /\ has_user_profile(up, q)

\* PromptGeneratorTool._run called on its own; the profile read or the generation
\* may raise
Direct_generate_habit_prompt(q) ==
    /\ external < MaxStoreOps
    /\ external' = external + 1
    /\ \E read_fails \in BOOLEAN, generation_fails \in BOOLEAN, generated \in {"walk"} :
        LET invoked == PromptGeneratorTool_invokes(user_profiles, q, read_fails)
            fail == read_fails \/ (invoked /\ generation_fails)
        IN  tool_result' = [tool |-> "generate_habit_prompt", caller |-> "direct",
                            participant_id |-> q,
                            arg |-> [read_fails |-> read_fails, invoked |-> invoked,
                                     generation_fails |-> invoked /\ generation_fails,
                                     generated |-> generated],
                            failed |-> fail,
                            result |-> PromptGeneratorTool_run(user_profiles, q, fail, generated),
                            before |-> user_profiles[q]]
    /\ UNCHANGED <<store, calls, profile_save, started, profile_ops, log, sequential,
                   merged, merges_sequential>>

\* the agent runs generate_habit_prompt(participant_id = q)
Agent_generate_habit_prompt(c, q) ==
    /\ ToolGuard(c, "generate_habit_prompt")
    /\ \E fail \in BOOLEAN, generated \in {"walk"} :
        /\ tool_result' = [tool |-> "generate_habit_prompt", caller |-> c,
                           participant_id |-> q, arg |-> None, failed |-> fail,
                           result |-> PromptGeneratorTool_run(user_profiles, q, fail, generated),
                           before |-> NoRow]
        /\ calls' = [calls EXCEPT ![c].tool_calls = @ + 1,
                                  ![c].store_failed = @ \/ fail]
    /\ UNCHANGED <<store, profile_save, started, external, profile_ops, log, sequential,
                   merged, merges_sequential>>


\* a variant of MergeProfile: the existing profile is not consulted
MergeProfile_Replace(existing, args, now) == UserProfile(args, now, now)

\* ProfileSaveTool._run, lines 58-86: the profile built from the existing one
\* and the arguments
MergeProfile(existing, args, now) ==
    IF existing # <<>>
    THEN UserProfile([f \in ProfileFields |->
                         IF args[f] # None THEN args[f] ELSE existing[1].fields[f]],
                     existing[1].created_at, now)
    ELSE UserProfile(args, now, now)

\* lines 90-106: the summary of the truthy arguments
SaveSummary(args) ==
    IF \E f \in ProfileFields : args[f] # None /\ args[f] # ""
    THEN "Profile saved successfully"
    ELSE "Profile save called but no fields were updated."

\* the tasks, other than k, between the read and the write of a profile save for q
Saving(k, q) ==
    {j \in Tasks \ {k} : profile_save[j].pc = "read" /\ profile_save[j].participant_id = q}

\* ProfileSaveTool._run up to existing_profile = get_user_profile(participant_id);
\* run by the agent of a route call (k in Calls) or on its own (k in Direct)
ProfileSaveBegin(k, q, args) ==
    /\ profile_save[k].pc = "idle"
    /\ IF k \in Calls THEN ToolGuard(k, "save_user_profile") ELSE profile_ops < MaxProfileOps
    /\ profile_ops' = IF k \in Calls THEN profile_ops ELSE profile_ops + 1
    /\ \/ /\ tool_result' = [tool |-> "save_user_profile", caller |-> k,
                             participant_id |-> q, arg |-> args, failed |-> TRUE,
                             result |-> "Error saving profile",
                             before |-> user_profiles[q]]
          /\ calls' = IF k \in Calls
                      THEN [calls EXCEPT ![k].tool_calls = @ + 1, ![k].store_failed = TRUE]
                      ELSE calls
          /\ UNCHANGED <<profile_save, merges_sequential>>
       \/ /\ profile_save' = [profile_save EXCEPT ![k] =
                [pc |-> "read", participant_id |-> q, args |-> args,
                 existing |-> IF has_user_profile(user_profiles, q)
                              THEN <<get_user_profile(user_profiles, q, clock)>>
                              ELSE <<>>]]
          /\ calls' = IF k \in Calls THEN [calls EXCEPT ![k].pc = "tool_profile"] ELSE calls
          /\ merges_sequential' = [merges_sequential EXCEPT ![q] = @ /\ Saving(k, q) = {}]
          /\ tool_result' = NoResult
    /\ UNCHANGED <<store, started, external, log, sequential, merged>>

\* ProfileSaveTool._run from the merge on: save_user_profile(profile) and the summary
ProfileSaveFinish(k) ==
    /\ profile_save[k].pc = "read"
    /\ LET q == profile_save[k].participant_id
           args == profile_save[k].args
       IN  \/ /\ tool_result' = [tool |-> "save_user_profile", caller |-> k,
                                 participant_id |-> q, arg |-> args, failed |-> TRUE,
                                 result |-> "Error saving profile",
                                 before |-> user_profiles[q]]
              /\ UNCHANGED <<user_profiles, clock, merged>>
           \/ /\ \E now \in Now :
                    /\ clock' = now
                    /\ user_profiles' = save_user_profile(user_profiles, q,
                            MergeProfile(profile_save[k].existing, args, now), now)
              /\ tool_result' = [tool |-> "save_user_profile", caller |-> k,
                                 participant_id |-> q, arg |-> args, failed |-> FALSE,
                                 result |-> SaveSummary(args),
                                 before |-> user_profiles[q]]
              /\ merged' = [merged EXCEPT ![q] =
                    [f \in ProfileFields |-> IF args[f] # None THEN args[f] ELSE @[f]]]
    /\ profile_save' = [profile_save EXCEPT ![k] = IdleSave]
    /\ calls' = IF k \in Calls
                THEN [calls EXCEPT ![k].pc = "agent", ![k].tool_calls = @ + 1,
                                   ![k].store_failed = @ \/ tool_result'.failed]
                ELSE calls
    /\ UNCHANGED <<flow_states, conversation_history, flow_state_data,
                   started, external, profile_ops, log, sequential, merges_sequential>>

\* state_manager.save_user_profile(UserProfile(participant_id = q, **fields)),
\* called on its own as the unit tests do
SaveUserProfile(q, fields) ==
    /\ profile_ops < MaxProfileOps
    /\ profile_ops' = profile_ops + 1
    /\ \E now \in Now :
        /\ clock' = now
        /\ user_profiles' = save_user_profile(user_profiles, q, UserProfile(fields, now, now), now)
    /\ tool_result' = [tool |-> "store.save_user_profile", caller |-> "direct",
                       participant_id |-> q, arg |-> fields, failed |-> FALSE,
                       result |-> "None", before |-> user_profiles[q]]
    /\ merged' = [merged EXCEPT ![q] = fields]
    /\ merges_sequential' = [merges_sequential EXCEPT ![q] = @ /\ Saving("none", q) = {}]
    /\ UNCHANGED <<flow_states, conversation_history, flow_state_data,
                   calls, profile_save, started, external, log, sequential>>

\* state_manager.set_current_state(q, state) called on its own, as the unit tests do
SetCurrentState(q, state) ==
    /\ external < MaxStoreOps
    /\ external' = external + 1
    /\ flow_states' = set_current_state(flow_states, q, state)
    /\ calls' = Touch(calls, "none", q)
    /\ tool_result' = [tool |-> "store.set_current_state", caller |-> "direct",
                       participant_id |-> q, arg |-> state, failed |-> FALSE,
                       result |-> "None", before |-> flow_states[q]]
    /\ UNCHANGED <<conversation_history, user_profiles, flow_state_data, clock,
                   profile_save, started, profile_ops, log, sequential,
                   merged, merges_sequential>>

\* the values written under a key: JSON null, a text, another text
DataValues == {None, "9am", "8am"}

\* state_manager.set_state_data(q, key, value) called on its own
SetStateData(q, key, value) ==
    /\ external < MaxStoreOps
    /\ external' = external + 1
    /\ flow_state_data' = set_state_data(flow_state_data, q, key, value)
    /\ tool_result' = [tool |-> "store.set_state_data", caller |-> "direct",
                       participant_id |-> q, arg |-> <<key, value>>, failed |-> FALSE,
                       result |-> "None", before |-> flow_state_data[q]]
    /\ UNCHANGED <<flow_states, conversation_history, user_profiles, clock,
                   calls, profile_save, started, profile_ops, log, sequential,
                   merged, merges_sequential>>

\* state_manager.add_message(q, role, content) called on its own
AddMessage(q, role, content) ==
    /\ external < MaxStoreOps
    /\ external' = external + 1
    /\ \E now \in Now :
        /\ clock' = now
        /\ conversation_history' = add_message(conversation_history, q, role, content, now)
    /\ sequential' = [sequential EXCEPT ![q] = FALSE]
    /\ tool_result' = [tool |-> "store.add_message", caller |-> "direct",
                       participant_id |-> q, arg |-> <<role, content>>, failed |-> FALSE,
                       result |-> "None", before |-> conversation_history[q]]
    /\ UNCHANGED <<flow_states, user_profiles, flow_state_data,
                   calls, profile_save, started, profile_ops, log,
                   merged, merges_sequential>>

\* profile_data objects as the other process writes them: some of the five fields
\* and keys UserProfile does not declare
ExternalProfileRows ==
    {[habit_domain |-> "fitness", timezone |-> "UTC"],
     [habit_domain |-> "coffee", prompt_anchor |-> "coffee", locale |-> "en",
      timezone |-> "UTC"],
     [timezone |-> "UTC"],
     [habit_domain |-> "fitness", prompt_anchor |-> "coffee", motivational_frame |-> None,
      preferred_time |-> "coffee", other_personalization |-> None, schema_version |-> "2"]}

\* the other process sharing the database writes a user_profiles row
ExternalWriteProfile(q, data) ==
    /\ external < MaxStoreOps
    /\ external' = external + 1
    /\ \E now \in Now :
        /\ clock' = now
        /\ user_profiles' = [user_profiles EXCEPT ![q] =
                                <<[profile_data |-> data, updated_at |-> now]>>]
    /\ tool_result' = [tool |-> "external.write_profile", caller |-> "direct",
                       participant_id |-> q, arg |-> data, failed |-> FALSE,
                       result |-> "None", before |-> user_profiles[q]]
    /\ merged' = [merged EXCEPT ![q] = ParseProfile(data)]
    /\ merges_sequential' = [merges_sequential EXCEPT ![q] = @ /\ Saving("none", q) = {}]
    /\ UNCHANGED <<flow_states, conversation_history, flow_state_data,
                   calls, profile_save, started, profile_ops, log, sequential>>

\* the values settings.chat_history_limit is given
Limits == (-1)..MaxLimit

\* the start of a handler's process_message with settings.chat_history_limit = limit:
\* the history read, cut and converted into what generation is given
PresentHistory(q, limit) ==
    /\ tool_result' = [tool |-> "present_history", caller |-> "direct",
                       participant_id |-> q, arg |-> limit, failed |-> FALSE,
                       result |-> ToChat(LimitHistory(
                                    get_conversation_history(conversation_history, q), limit)),
                       before |-> conversation_history[q]]
    /\ UNCHANGED <<store, calls, profile_save, started, external, profile_ops, log,
                   sequential, merged, merges_sequential>>

\* IntakeAgent.process_message, lines 117-121 and 138-141: the input is the message,
\* followed by the profile's context string when a profile is stored
enhanced_input(up, p, user_message, now) ==
    IF has_user_profile(up, p)
    THEN <<user_message>> \o to_context_string(get_user_profile(up, p, now))
    ELSE <<user_message>>

\* what a handler gives to generation after its system prompt: the converted history
\* and one human message (coordinator: messages[1:]; intake: chat_history, then input)
message_sequence(handler, ch, up, p, user_message, limit, now) ==
    ToChat(LimitHistory(get_conversation_history(ch, p), limit))
        \o << <<"human", IF handler = "intake"
                         THEN enhanced_input(up, p, user_message, now)
                         ELSE <<user_message>> >> >>

\* the handlers whose process_message is in the source
PresentingHandlers == {"coordinator", "intake"}

\* a handler's process_message up to the call of generation, with
\* settings.chat_history_limit = limit: the message sequence it has built
PresentMessages(q, handler, limit, m) ==
    /\ tool_result' = [tool |-> "present_messages", caller |-> handler,
                       participant_id |-> q, arg |-> <<limit, m>>, failed |-> FALSE,
                       result |-> message_sequence(handler, conversation_history,
                                                   user_profiles, q, m, limit, clock),
                       before |-> conversation_history[q]]
    /\ UNCHANGED <<store, calls, profile_save, started, external, profile_ops, log,
                   sequential, merged, merges_sequential>>

\* ---------------------------------------------------------- specifications
Init ==
    /\ flow_states = [p \in Participants |-> NoRow]
    /\ conversation_history = [p \in Participants |-> <<>>]
    /\ user_profiles = [p \in Participants |-> <<>>]
    /\ flow_state_data = [p \in Participants |-> [key \in StateDataKeys |-> <<>>]]
    /\ clock = 0
    /\ calls = [c \in Calls |-> IdleCall]
    /\ profile_save = [k \in Tasks |-> IdleSave]
    /\ tool_result = NoResult
    /\ started = 0
    /\ external = 0
    /\ profile_ops = 0
    /\ log = [p \in Participants |-> <<>>]
    /\ sequential = [p \in Participants |-> TRUE]
    /\ merged = [p \in Participants |-> [f \in ProfileFields |-> None]]
    /\ merges_sequential = [p \in Participants |-> TRUE]

\* the call slots and participants of the one-turn-at-a-time specification
Turns == {"c1"}
Routed == {"p1"}

\* the text of the next inbound message: consecutive turns send different texts
NextMessage == UserMessages[(started % Len(UserMessages)) + 1]

\* route calls, the tools their agents run, and the other writers of the state
Next ==
    \/ \E c \in Turns, p \in Routed : RouteStart(c, p, NextMessage)
    \/ \E c \in Turns : RouteGetState(c)
    \/ \E c \in Turns : RouteSetDefault(c)
    \/ \E c \in Turns : HandlerGetHistory(c)
    \/ \E c \in Turns : HandlerGetProfile(c)
    \/ \E c \in Turns : HandlerAddUser(c)
    \/ \E c \in Turns, out \in Responses : AgentFinish(c, out)
    \/ \E c \in Turns : AgentRaise(c)
    \/ \E c \in Turns, q \in Participants, label \in Labels : Agent_transition_state(c, q, label)
    \/ \E c \in Turns, q \in Participants, time \in ScheduleTimes, message \in ScheduleMessages :
            Agent_schedule_daily_prompt(c, q, time, message)
    \/ \E c \in Turns, q \in Participants : Agent_generate_habit_prompt(c, q)
    \/ \E c \in Turns, q \in Participants, args \in AgentProfileArgs : ProfileSaveBegin(c, q, args)
    \/ \E c \in Turns : ProfileSaveFinish(c)
    \/ \E c \in Turns : HandlerAddAssistant(c)
    \/ \E c \in Turns : RouteReread(c)
    \/ \E q \in Participants, label \in Labels : Direct_transition_state(q, label)
    \/ \E q \in Participants, label \in Labels : ExternalSetState(q, label)

Spec == Init /\ [][Next]_vars


\* profile saves by one caller at a time: the tool and the store's own write
ProfileParticipants == {"p1"}
ProfileCallers == {"t1"}
NextProfile ==
    \/ \E k \in ProfileCallers, q \in ProfileParticipants, args \in ProfileArgs :
            ProfileSaveBegin(k, q, args)
    \/ \E k \in ProfileCallers : ProfileSaveFinish(k)
    \/ \E q \in ProfileParticipants, fields \in ProfileArgs : SaveUserProfile(q, fields)

SpecProfile == Init /\ [][NextProfile]_vars

\* one route call per participant, for different participants, interleaved at the
\* store operations; the states the participants are in were written beforehand
Apart == [c1 |-> "p1", c2 |-> "p2"]
ApartMessage == [c1 |-> "hi", c2 |-> "hello"]
NextApart ==
    \/ \E q \in Participants, label \in {"COORDINATOR", "INTAKE", "CONVERSATION_ACTIVE"} :
            started = 0 /\ Direct_transition_state(q, label)
    \/ \E c \in Calls : calls[c].pc = "idle" /\ RouteStart(c, Apart[c], ApartMessage[c])
    \/ \E c \in Calls : RouteGetState(c)
    \/ \E c \in Calls : RouteSetDefault(c)
    \/ \E c \in Calls : HandlerGetHistory(c)
    \/ \E c \in Calls : HandlerGetProfile(c)
    \/ \E c \in Calls : HandlerAddUser(c)
    \/ \E c \in Calls, out \in Responses : AgentFinish(c, out)
    \/ \E c \in Calls : AgentRaise(c)
    \/ \E c \in Calls, q \in Participants, label \in ConversationState :
            Agent_transition_state(c, q, label)
    \/ \E c \in Calls : HandlerAddAssistant(c)
    \/ \E c \in Calls : RouteReread(c)

SpecApart == Init /\ [][NextApart]_vars

\* concurrent route calls for the same participant, one per slot, interleaved at the
\* store operations; the participant's state was written beforehand
SameParticipant == "p1"
Replies == {"reply", "sure"}
NextSame ==
    \/ \E label \in {"COORDINATOR", "INTAKE"} :
            started = 0 /\ Direct_transition_state(SameParticipant, label)
    \/ \E c \in Calls :
            calls[c].pc = "idle" /\ RouteStart(c, SameParticipant, ApartMessage[c])
    \/ \E c \in Calls : RouteGetState(c)
    \/ \E c \in Calls : RouteSetDefault(c)
    \/ \E c \in Calls : HandlerGetHistory(c)
    \/ \E c \in Calls : HandlerGetProfile(c)
    \/ \E c \in Calls : HandlerAddUser(c)
    \/ \E c \in Calls, out \in Replies : AgentFinish(c, out)
    \/ \E c \in Calls : AgentRaise(c)
    \/ \E c \in Calls : HandlerAddAssistant(c)
    \/ \E c \in Calls : RouteReread(c)

SpecSame == Init /\ [][NextSame]_vars

\* two runs of ProfileSaveTool for the same participant whose reads and writes
\* may interleave
RaceArgs ==
    {[f \in ProfileFields |-> IF f = g THEN v ELSE None] :
        g \in {"habit_domain", "prompt_anchor"}, v \in FieldValues}
NextProfileRace ==
    \/ \E k \in Direct, args \in RaceArgs : ProfileSaveBegin(k, SameParticipant, args)
    \/ \E k \in Direct : ProfileSaveFinish(k)

SpecProfileRace == Init /\ [][NextProfileRace]_vars

\* a history of USER and ASSISTANT rows, presented under every setting of the bound
NextLimit ==
    \/ \E role \in {"user", "assistant"}, content \in {"hi", "hello"} :
            AddMessage(SameParticipant, role, content)
    \/ \E limit \in Limits : PresentHistory(SameParticipant, limit)

SpecLimit == Init /\ [][NextLimit]_vars

\* profile rows written by the other process, read and merged into by this one
NextCollaborator ==
    \/ \E data \in ExternalProfileRows : ExternalWriteProfile(SameParticipant, data)
    \/ \E k \in ProfileCallers, args \in RaceArgs : ProfileSaveBegin(k, SameParticipant, args)
    \/ \E k \in ProfileCallers : ProfileSaveFinish(k)

SpecCollaborator == Init /\ [][NextCollaborator]_vars

\* the store's operations called on their own, for either participant
StoreProfileArgs ==
    {[f \in ProfileFields |-> IF f = g THEN "coffee" ELSE None] :
        g \in {"habit_domain", "prompt_anchor"}}
NextStore ==
    \/ \E q \in Participants, state \in ConversationState : SetCurrentState(q, state)
    \/ \E q \in Participants, key \in StateDataKeys, value \in DataValues :
            SetStateData(q, key, value)
    \/ \E q \in Participants, role \in MessageRole, content \in {"hi"} :
            AddMessage(q, role, content)
    \/ \E q \in Participants, fields \in StoreProfileArgs : SaveUserProfile(q, fields)

SpecStore == Init /\ [][NextStore]_vars

\* the core on its own: route calls, the tools their agents run and the transition
\* tool called directly; no other process writes the database
NextCore ==
    \/ \E c \in Turns, p \in Routed : RouteStart(c, p, NextMessage)
    \/ \E c \in Turns : RouteGetState(c)
    \/ \E c \in Turns : RouteSetDefault(c)
    \/ \E c \in Turns : HandlerGetHistory(c)
    \/ \E c \in Turns : HandlerGetProfile(c)
    \/ \E c \in Turns : HandlerAddUser(c)
    \/ \E c \in Turns, out \in Responses : AgentFinish(c, out)
    \/ \E c \in Turns : AgentRaise(c)
    \/ \E c \in Turns, q \in Participants, label \in Labels : Agent_transition_state(c, q, label)
    \/ \E c \in Turns, q \in Participants, time \in ScheduleTimes, message \in ScheduleMessages :
            Agent_schedule_daily_prompt(c, q, time, message)
    \/ \E c \in Turns, q \in Participants : Agent_generate_habit_prompt(c, q)
    \/ \E c \in Turns, q \in Participants, args \in AgentProfileArgs : ProfileSaveBegin(c, q, args)
    \/ \E c \in Turns : ProfileSaveFinish(c)
    \/ \E c \in Turns : HandlerAddAssistant(c)
    \/ \E c \in Turns : RouteReread(c)
    \/ \E q \in Participants, label \in Labels : Direct_transition_state(q, label)

SpecCore == Init /\ [][NextCore]_vars

\* a history with rows of every role and a profile that may exist, presented by
\* either handler under every setting of the bound
NextSequence ==
    \/ \E role \in MessageRole, content \in {"hi"} :
            AddMessage(SameParticipant, role, content)
    \/ \E fields \in StoreProfileArgs : SaveUserProfile(SameParticipant, fields)
    \/ \E handler \in PresentingHandlers, limit \in Limits, m \in {"hi", "hello"} :
            PresentMessages(SameParticipant, handler, limit, m)

SpecSequence == Init /\ [][NextSequence]_vars

\* the scheduler tool run on its own over state data that other keys and other
\* participants already hold, next to a stored state
NextSchedule ==
    \/ \E q \in Participants, time \in ScheduleTimes \cup {"9am"}, message \in ScheduleMessages :
            Direct_schedule_daily_prompt(q, time, message)
    \/ \E q \in Participants, key \in StateDataKeys \ {"schedule"}, value \in {"9am", "8am"} :
            SetStateData(q, key, value)
    \/ \E state \in {"INTAKE"} : SetCurrentState(SameParticipant, state)

SpecSchedule == Init /\ [][NextSchedule]_vars

\* the prompt generator run on its own for participants with and without a profile
NextPrompt ==
    \/ \E q \in Participants : Direct_generate_habit_prompt(q)
    \/ \E q \in Participants, fields \in StoreProfileArgs : SaveUserProfile(q, fields)

SpecPrompt == Init /\ [][NextPrompt]_vars

\* one step of route call c: the next statement of process_message and of the
\* handler it dispatched to, a tool run by the handler's agent included
CallStep(c) ==
    \/ RouteGetState(c)
    \/ RouteSetDefault(c)
    \/ HandlerGetHistory(c)
    \/ HandlerGetProfile(c)
    \/ HandlerAddUser(c)
    \/ \E out \in Responses : AgentFinish(c, out)
    \/ AgentRaise(c)
    \/ \E label \in {"COORDINATOR", UnknownLabel} :
            Agent_transition_state(c, SameParticipant, label)
    \/ \E args \in AgentProfileArgs : ProfileSaveBegin(c, SameParticipant, args)
    \/ ProfileSaveFinish(c)
    \/ HandlerAddAssistant(c)
    \/ RouteReread(c)

\* two route calls for the same participant that may overlap; every store operation
\* and every generation call of a call in flight eventually returns or fails
NextTerminate ==
    \/ \E label \in {"COORDINATOR", "INTAKE"} :
            started = 0 /\ Direct_transition_state(SameParticipant, label)
    \/ \E c \in Calls :
            calls[c].pc = "idle" /\ RouteStart(c, SameParticipant, ApartMessage[c])
    \/ \E c \in Calls : CallStep(c)

SpecTerminate ==
    Init /\ [][NextTerminate]_vars /\ \A c \in Calls : WF_vars(CallStep(c))

\* ------------------------------------------------------------- properties
Returned(c) == calls[c].pc = "returned"

\* the persisted state as a later get_current_state outside route returns it
Persisted(p) == get_current_state(flow_states, p)

\* C1: a route call that began with no persisted state for its participant, whose
\* handler carried out no transition for that participant and during which nobody
\* else wrote the participant's state, returns COORDINATOR, and COORDINATOR is what a
\* later get_current_state returns.
C1_DefaultState ==
    \A c \in Calls :
        (Returned(c) /\ calls[c].state_before = NoRow /\ calls[c].requested = None
            /\ ~calls[c].touched)
        => /\ calls[c].updated_state = "COORDINATOR"
           /\ Persisted(calls[c].participant_id) = "COORDINATOR"

C1_Witness ==
    \E c \in Calls :
        /\ Returned(c) /\ calls[c].state_before = NoRow /\ calls[c].requested = None
        /\ ~calls[c].touched
        /\ calls[c].updated_state = "COORDINATOR"
        /\ flow_states[calls[c].participant_id] = "COORDINATOR"

\* C2: while a handler is processing a message, the participant's persisted state is
\* never absent: the default was written before the handler began.
C2_ConcreteDuringHandler ==
    \A c \in Calls : InHandler(c) => flow_states[calls[c].participant_id] # NoRow

C2_Witness ==
    \E c \in Calls :
        /\ InHandler(c) /\ calls[c].read_state = None /\ calls[c].state_before = NoRow
        /\ flow_states[calls[c].participant_id] = "COORDINATOR"

\* C3: the handler that processes a message is the one the state read at the start of
\* the call selects: INTAKE the intake handler, FEEDBACK the feedback handler,
\* COORDINATOR, CONVERSATION_ACTIVE and absent the coordinator handler; it is the
\* same handler at every step of the call.
C3_DispatchByReadState ==
    \A c \in Calls :
        (InHandler(c) \/ calls[c].pc \in {"reread", "returned"}) =>
            /\ calls[c].read_state = "INTAKE" => calls[c].handler = "intake"
            /\ calls[c].read_state = "FEEDBACK" => calls[c].handler = "feedback"
            /\ calls[c].read_state \in {"COORDINATOR", "CONVERSATION_ACTIVE", None}
                    => calls[c].handler = "coordinator"
            /\ calls[c].handler \in {"intake", "feedback", "coordinator"}

C3_Witness ==
    \E c \in Calls :
        /\ Returned(c) /\ calls[c].read_state = "FEEDBACK" /\ calls[c].handler = "feedback"

\* C4: when the handler's last transition for its participant was carried out with
\* state S and nobody else wrote the participant's state, the call returns S.
C4_TransitionThenReread ==
    \A c \in Calls :
        (Returned(c) /\ calls[c].requested # None /\ ~calls[c].touched)
        => calls[c].updated_state = calls[c].requested

C4_Witness ==
    \E c \in Calls :
        /\ Returned(c) /\ ~calls[c].touched
        /\ calls[c].handler = "intake" /\ calls[c].read_state = "INTAKE"
        /\ calls[c].requested = "FEEDBACK" /\ calls[c].updated_state = "FEEDBACK"

\* the tool run that was the last step, if it was transition_state
TransitionRan == tool_result.tool = "transition_state"

\* C5: a transition_state run with a label outside the enumeration leaves the
\* participant's stored state as it was (absent included), returns the error text,
\* and the route call whose agent ran it is still inside its handler.
C5_InvalidTransitionSafe ==
    (TransitionRan /\ tool_result.arg \notin ConversationState)
    => /\ flow_states[tool_result.participant_id] = tool_result.before
       /\ tool_result.result = "Error: Invalid state"
       /\ tool_result.caller \in Calls =>
              /\ calls[tool_result.caller].pc = "agent"
              /\ calls[tool_result.caller].error = "none"

C5_Witness ==
    /\ TransitionRan /\ tool_result.arg \notin ConversationState
    /\ tool_result.caller \in Calls
    /\ calls[tool_result.caller].pc = "agent"
    /\ flow_states[tool_result.participant_id] = tool_result.before

Effective(label) == IF label = NoRow THEN "COORDINATOR" ELSE label

InHistory(p, role, content) ==
    \E i \in 1..Len(conversation_history[p]) :
        /\ conversation_history[p][i].role = role
        /\ conversation_history[p][i].content = content

\* C7: for the handlers of the source (coordinator, intake): a returned route call
\* whose generation failed, with no other writer, has the apology as its response,
\* left the persisted state what it was before the call (absent counted as
\* COORDINATOR), and its inbound message is in the history.
C7_FailSoftGeneration ==
    \A c \in Calls :
        (Returned(c) /\ calls[c].gen_failed /\ ~calls[c].touched
            /\ calls[c].handler \in {"coordinator", "intake"})
        => /\ calls[c].response = Apology
           /\ Effective(flow_states[calls[c].participant_id]) = Effective(calls[c].state_before)
           /\ InHistory(calls[c].participant_id, "user", calls[c].user_message)

\* the history the claims speak of: role and content, in the order read
RolesAndContents(messages) ==
    [i \in 1..Len(messages) |-> [role |-> messages[i].role, content |-> messages[i].content]]

\* USER text then ASSISTANT response of each returned call, in call order
Alternating(lg) ==
    [i \in 1..(2 * Len(lg)) |->
        IF i % 2 = 1 THEN [role |-> "user", content |-> lg[(i + 1) \div 2][1]]
        ELSE [role |-> "assistant", content |-> lg[i \div 2][2]]]

Quiet(p) == \A c \in Calls : ~(Active(c) /\ calls[c].participant_id = p)

\* C8: after N route calls on one participant, made one at a time from an empty
\* history and all returned, get_conversation_history gives exactly 2N messages:
\* the k-th inbound text as USER then the k-th response as ASSISTANT, in call order.
C8_HistoryAppendOrder ==
    \A p \in Participants :
        (sequential[p] /\ Quiet(p)) =>
            RolesAndContents(get_conversation_history(conversation_history, p))
                = Alternating(log[p])

C8_Witness ==
    /\ sequential["p1"] /\ Quiet("p1")
    /\ Len(log["p1"]) = 2
    /\ Len(get_conversation_history(conversation_history, "p1")) = 4
    /\ conversation_history["p1"][1].timestamp < conversation_history["p1"][4].timestamp

\* the five fields as get_user_profile returns them; all unset without a profile
CurrentFields(p) ==
    IF has_user_profile(user_profiles, p)
    THEN get_user_profile(user_profiles, p, clock).fields
    ELSE [f \in ProfileFields |-> None]

\* C9: after any sequence of profile saves made one at a time, each field holds the
\* value of the most recent save that provided it, and a field set earlier and
\* omitted since keeps its value.
C9_FieldMerge ==
    \A p \in Participants : merges_sequential[p] => CurrentFields(p) = merged[p]

C9_Witness ==
    /\ tool_result.tool = "save_user_profile" /\ ~tool_result.failed
    /\ tool_result.before # <<>>
    /\ tool_result.before[1].profile_data["habit_domain"] = "fitness"
    /\ tool_result.arg["habit_domain"] = None
    /\ tool_result.arg["prompt_anchor"] = "coffee"
    /\ CurrentFields(tool_result.participant_id)["habit_domain"] = "fitness"
    /\ CurrentFields(tool_result.participant_id)["prompt_anchor"] = "coffee"

StoreSaveRan == tool_result.tool = "store.save_user_profile"

\* C10 as stated: a field set in the stored profile and omitted from the record
\* written through save_user_profile is still set afterwards.
C10_StoreWriteMerges ==
    StoreSaveRan =>
        \A f \in ProfileFields :
            (/\ tool_result.before # <<>>
             /\ tool_result.before[1].profile_data[f] # None
             /\ tool_result.arg[f] = None)
            => CurrentFields(tool_result.participant_id)[f] # None

\* C10 amended: save_user_profile replaces the stored record: afterwards every field
\* holds exactly the written value, so a field the written record omits is unset.
C10_StoreWriteReplaces ==
    StoreSaveRan => CurrentFields(tool_result.participant_id) = tool_result.arg

C10_Witness ==
    /\ StoreSaveRan
    /\ tool_result.before # <<>>
    /\ tool_result.before[1].profile_data["habit_domain"] = "fitness"
    /\ tool_result.arg["habit_domain"] = None
    /\ CurrentFields(tool_result.participant_id)["habit_domain"] = None

\* the handler has read the history and has not yet appended the inbound message
ReadNotAppended(c) == calls[c].pc \in {"get_profile", "add_user"}

\* the handler has appended the inbound message and not yet its response
AtGeneration(c) == calls[c].pc \in {"agent", "tool_profile", "add_assistant"}

\* C11 as stated: the history the handler read during the turn ends with the
\* turn's inbound message as a USER entry.
C11_ReadSeesInbound ==
    \A c \in Calls :
        (ReadNotAppended(c) \/ AtGeneration(c)) =>
            /\ Len(calls[c].chat_history) > 0
            /\ calls[c].chat_history[Len(calls[c].chat_history)]
                  = <<"human", calls[c].user_message>>

\* C11 amended: the handler reads the history first and appends the inbound message
\* as a USER row afterwards, before generation: what it read is the stored history
\* without that row, and at generation the row is the newest one in the store.
C11_AppendAfterRead ==
    \A c \in Calls :
        LET hist == get_conversation_history(conversation_history, calls[c].participant_id)
        IN  /\ ReadNotAppended(c) => calls[c].chat_history = ToChat(hist)
            /\ AtGeneration(c) =>
                  /\ Len(hist) = Len(calls[c].chat_history) + 1
                  /\ calls[c].chat_history = ToChat(SubSeq(hist, 1, Len(hist) - 1))
                  /\ hist[Len(hist)].role = "user"
                  /\ hist[Len(hist)].content = calls[c].user_message

C11_Witness ==
    \E c \in Calls :
        /\ AtGeneration(c) /\ calls[c].user_message = "hello"
        /\ calls[c].chat_history = <<<<"human", "hi">>, <<"ai", "reply">>>>
        /\ Len(conversation_history[calls[c].participant_id]) = 3
        /\ conversation_history[calls[c].participant_id][3].content = "hello"

\* C12: once the handler has returned (the router is at its re-read or has returned),
\* the newest row of the participant's history is an ASSISTANT row whose content is
\* the response of the turn; when generation failed that response is the apology.
C12_AssistantAppended ==
    \A c \in Calls :
        calls[c].pc \in {"reread", "returned"} =>
            LET hist == get_conversation_history(conversation_history, calls[c].participant_id)
            IN  /\ Len(hist) > 0
                /\ hist[Len(hist)].role = "assistant"
                /\ hist[Len(hist)].content = calls[c].response
                /\ calls[c].gen_failed => calls[c].response = Apology

C12_Witness ==
    \E c \in Calls :
        /\ Returned(c) /\ calls[c].gen_failed /\ calls[c].handler = "intake"
        /\ Len(conversation_history[calls[c].participant_id]) = 2
        /\ conversation_history[calls[c].participant_id][2] \in
              {[role |-> "assistant", content |-> Apology, timestamp |-> t] : t \in 0..MaxClock}

\* the texts a tool returns when the store call inside it failed
StoreFailureTexts ==
    {"Error transitioning state", "Error saving profile", "Error scheduling prompt"}

\* C13 as stated, for the handlers of the source (coordinator, intake): a route call
\* during which a store operation failed, inside a capability the handler invoked
\* included, does not return a response: right after the failing tool run the call
\* has ended with an error, and no call during which the store failed ever returns.
C13_StoreFailureAborts ==
    \A c \in Calls :
        calls[c].handler \in {"coordinator", "intake"} =>
            /\ (tool_result.caller = c /\ tool_result.result \in StoreFailureTexts)
                  => calls[c].pc = "raised"
            /\ calls[c].store_failed => ~Returned(c)

\* the stored label is not one of the four enumerated values
Unreadable(label) == label # NoRow /\ ~IsConversationState(label)

\* C14: a route call for a participant whose stored label is unreadable, with no
\* other writer of that participant's state, never gets past its first state read: it
\* ends with an error, no handler is chosen, the stored label is what it was (no
\* default written) and the history has the length it had when the call began.
C14_UnreadableStateFails ==
    \A c \in Calls :
        (calls[c].pc # "idle" /\ Unreadable(calls[c].state_before) /\ ~calls[c].touched)
        => /\ calls[c].pc \in {"get_state", "raised"}
           /\ calls[c].pc = "raised" => calls[c].error \in {"ValueError", "StoreUnavailable"}
           /\ calls[c].handler = "none"
           /\ calls[c].response = ""
           /\ flow_states[calls[c].participant_id] = calls[c].state_before
           /\ Len(conversation_history[calls[c].participant_id]) = calls[c].history_before

C14_Witness ==
    \E c \in Calls :
        /\ calls[c].pc = "raised" /\ calls[c].error = "ValueError"
        /\ calls[c].state_before = UnknownLabel /\ ~calls[c].touched
        /\ calls[c].history_before = 2
        /\ flow_states[calls[c].participant_id] = UnknownLabel
        /\ Len(conversation_history[calls[c].participant_id]) = 2

C16_DataLastWrite ==
    /\ \A p \in Participants, key \in StateDataKeys :
            get_state_data(flow_state_data, p, key) = None
    /\ [][\A p \in Participants, key \in StateDataKeys :
            IF /\ tool_result'.tool = "store.set_state_data"
               /\ tool_result'.participant_id = p
               /\ tool_result'.arg[1] = key
            THEN get_state_data(flow_state_data', p, key) = tool_result'.arg[2]
            ELSE get_state_data(flow_state_data', p, key)
                    = get_state_data(flow_state_data, p, key)]_vars

C16_Witness ==
    /\ tool_result.tool = "store.set_state_data"
    /\ tool_result.arg = <<"schedule", "8am">>
    /\ tool_result.before["schedule"] = <<json_dumps("9am")>>
    /\ get_state_data(flow_state_data, tool_result.participant_id, "schedule") = "8am"
    /\ get_state_data(flow_state_data, tool_result.participant_id, "notes") = "9am"

\* the handlers whose code is in the source tree, and no handler yet
SourceHandlers == {"none", "coordinator", "intake"}

\* C17 as stated: a step of a route call for participant p (taken in the router or
\* in the coordinator or intake handler), and a store operation for p, leave the
\* state, history, profile and state data of every other participant q as they were.
C17_OtherParticipantsUnchanged ==
    [][\A q \in Participants :
          (\/ \E c \in Calls :
                  /\ calls'[c].pc # calls[c].pc \/ calls'[c].tool_calls # calls[c].tool_calls
                  /\ calls'[c].participant_id # q
                  /\ calls'[c].handler \in SourceHandlers
           \/ /\ tool_result'.caller = "direct" /\ tool_result'.tool # "none"
              /\ tool_result'.participant_id # q)
          => /\ flow_states'[q] = flow_states[q]
             /\ conversation_history'[q] = conversation_history[q]
             /\ user_profiles'[q] = user_profiles[q]
             /\ flow_state_data'[q] = flow_state_data[q]]_vars

\* C18 as stated, for one call per participant with nothing else writing: a returned
\* call of the coordinator or intake handler has the outcome it has when run alone:
\* the final state is the state it carried out a transition to, or else the state its
\* participant was in (COORDINATOR when absent), that state is the persisted one,
\* and the participant's history is the inbound message and the response.
C18_AsIfAlone ==
    \A c \in Calls :
        (Returned(c) /\ calls[c].handler \in {"coordinator", "intake"}) =>
            /\ calls[c].updated_state =
                  IF calls[c].requested # None THEN calls[c].requested
                  ELSE Effective(calls[c].state_before)
            /\ Persisted(calls[c].participant_id) = calls[c].updated_state
            /\ RolesAndContents(get_conversation_history(conversation_history,
                                                         calls[c].participant_id))
                  = <<[role |-> "user", content |-> calls[c].user_message],
                      [role |-> "assistant", content |-> calls[c].response]>>

\* the route calls begun so far have all returned
AllComplete ==
    /\ \A c \in Calls : calls[c].pc \in {"idle", "returned"}
    /\ \E c \in Calls : Returned(c)

\* C19: when the k concurrent route calls for one participant have all returned,
\* the history, empty before, holds exactly 2k rows: for each call one USER row with
\* its inbound text and, after it, one ASSISTANT row with its response, no row
\* serving two calls.
C19_NoMessageLost ==
    AllComplete =>
        LET done == {c \in Calls : Returned(c)}
            hist == get_conversation_history(conversation_history, SameParticipant)
            rows == 1..Len(hist)
        IN  /\ Len(hist) = 2 * Cardinality(done)
            /\ \E u \in [done -> rows], a \in [done -> rows] :
                  /\ \A c \in done :
                        /\ hist[u[c]].role = "user"
                        /\ hist[u[c]].content = calls[c].user_message
                        /\ hist[a[c]].role = "assistant"
                        /\ hist[a[c]].content = calls[c].response
                        /\ u[c] < a[c]
                  /\ \A c, d \in done : c # d => (u[c] # u[d] /\ a[c] # a[d])

C19_Witness ==
    /\ \A c \in Calls : Returned(c) /\ calls[c].participant_id = SameParticipant
    /\ Len(conversation_history[SameParticipant]) = 4
    /\ conversation_history[SameParticipant][1].role = "user"
    /\ conversation_history[SameParticipant][2].role = "user"
    /\ conversation_history[SameParticipant][1].timestamp
          < conversation_history[SameParticipant][4].timestamp
    /\ calls["c1"].response # calls["c2"].response

\* C20 as stated, in what it entails for every field: applied in either sequential
\* order, the merges leave set every field that one of them provided; so once no
\* merge is in progress, every field a completed merge provided is set.
C20_MergesSerializable ==
    (\A k \in Tasks : profile_save[k].pc = "idle") =>
        \A p \in Participants, f \in ProfileFields :
            merged[p][f] # None => CurrentFields(p)[f] # None

\* C20 amended: the profile record of the merge that writes last wins as a whole:
\* after the write of a merge every field holds the value that merge provided or
\* else the value the field had when that merge read the profile, whatever was
\* written between its read and its write.
C20_LastRecordWins ==
    [][\A k \in Tasks :
          (profile_save[k].pc = "read" /\ profile_save'[k].pc = "idle"
              /\ ~tool_result'.failed)
          => LET q == profile_save[k].participant_id
                 args == profile_save[k].args
                 existing == profile_save[k].existing
             IN  /\ has_user_profile(user_profiles', q)
                 /\ ParseProfile(user_profiles'[q][1].profile_data) =
                       [f \in ProfileFields |->
                           IF args[f] # None THEN args[f]
                           ELSE IF existing = <<>> THEN None
                           ELSE existing[1].fields[f]]]_vars

C20_Witness ==
    /\ tool_result.tool = "save_user_profile" /\ ~tool_result.failed
    /\ ~merges_sequential[SameParticipant]
    /\ \A k \in Tasks : profile_save[k].pc = "idle"
    /\ merged[SameParticipant]["habit_domain"] = "fitness"
    /\ merged[SameParticipant]["prompt_anchor"] = "coffee"
    /\ CurrentFields(SameParticipant)["habit_domain"] = None
    /\ CurrentFields(SameParticipant)["prompt_anchor"] = "coffee"

\* C21: every step of the router, the handlers, the tools and the other writers
\* leaves each stored message in place, with its role, content and timestamp: the
\* rows a participant had are the first rows it has afterwards.
C21_AppendOnly ==
    [][\A p \in Participants :
          /\ Len(conversation_history'[p]) >= Len(conversation_history[p])
          /\ SubSeq(conversation_history'[p], 1, Len(conversation_history[p]))
                = conversation_history[p]]_vars

C21_Witness ==
    /\ Len(conversation_history["p1"]) = 4
    /\ conversation_history["p1"][1].content = "hi"
    /\ conversation_history["p1"][3].content = "hello"
    /\ conversation_history["p1"][4].role = "assistant"
    /\ \E c \in Calls : calls[c].pc = "reread" /\ calls[c].tool_calls = 1

\* C22: get_conversation_history returns a participant's rows in the order they
\* were inserted, rows of the same timestamp included, and right after an
\* add_message the row it inserted is the last one returned.
C22_InsertionOrder ==
    /\ \A p \in Participants :
          get_conversation_history(conversation_history, p) = conversation_history[p]
    /\ tool_result.tool = "store.add_message" =>
          LET hist == get_conversation_history(conversation_history,
                                               tool_result.participant_id)
          IN  /\ Len(hist) = Len(tool_result.before) + 1
              /\ <<hist[Len(hist)].role, hist[Len(hist)].content>> = tool_result.arg

C22_Witness ==
    /\ tool_result.tool = "store.add_message"
    /\ tool_result.arg = <<"assistant", "hi">>
    /\ LET rows == conversation_history[tool_result.participant_id]
       IN  /\ Len(rows) = 3
           /\ rows[1].timestamp < rows[2].timestamp
           /\ rows[2].timestamp = rows[3].timestamp
           /\ rows[2].role = "user"
           /\ get_conversation_history(conversation_history,
                                       tool_result.participant_id)[3].role = "assistant"

\* the last n of the messages
LastN(messages, n) ==
    SubSeq(messages, IF Len(messages) > n THEN Len(messages) - n + 1 ELSE 1, Len(messages))

\* C23 as stated: with the bound -1 the handler presents all stored messages, with 0
\* none, and with N > 0 the last min(N, length) of them, in order.
C23_HistoryBound ==
    tool_result.tool = "present_history" =>
        LET hist == get_conversation_history(conversation_history, tool_result.participant_id)
            limit == tool_result.arg
        IN  tool_result.result =
                ToChat(IF limit = -1 THEN hist
                       ELSE IF limit = 0 THEN <<>>
                       ELSE LastN(hist, limit))

\* C24 as stated: while the coordinator handler is generating, a transition of the
\* call's participant to INTAKE and to FEEDBACK can be carried out by that turn.
C24_CoordinatorCanTransition ==
    \A c \in Calls :
        (calls[c].pc = "agent" /\ calls[c].handler = "coordinator"
            /\ calls[c].tool_calls < MaxToolCalls)
        => /\ "transition_state" \in HandlerTools(calls[c].handler)
           /\ ENABLED Agent_transition_state(c, calls[c].participant_id, "INTAKE")
           /\ ENABLED Agent_transition_state(c, calls[c].participant_id, "FEEDBACK")

\* C25 as stated: once a participant has a profile, the created_at that
\* get_user_profile returns is the same before and after every later step.
C25_CreatedAtStable ==
    [][\A p \in Participants :
          (has_user_profile(user_profiles, p) /\ has_user_profile(user_profiles', p))
          => get_user_profile(user_profiles', p, clock').created_at
                = get_user_profile(user_profiles, p, clock).created_at]_vars

\* C26: whatever keys a stored profile row carries, get_user_profile returns a
\* profile of exactly the five personalization fields, each with the value the row
\* stores for it (None when the row has no such key); right after the other process
\* wrote a row that is what a read returns.
C26_UnknownFieldsTolerated ==
    /\ \A p \in Participants :
          has_user_profile(user_profiles, p) =>
              LET data == user_profiles[p][1].profile_data
                  fields == get_user_profile(user_profiles, p, clock).fields
              IN  /\ DOMAIN fields = ProfileFields
                  /\ \A f \in ProfileFields :
                        fields[f] = IF f \in DOMAIN data THEN data[f] ELSE None
    /\ tool_result.tool = "external.write_profile" =>
          /\ has_user_profile(user_profiles, tool_result.participant_id)
          /\ \A f \in ProfileFields \cap DOMAIN tool_result.arg :
                CurrentFields(tool_result.participant_id)[f] = tool_result.arg[f]

C26_Witness ==
    /\ tool_result.tool = "external.write_profile"
    /\ {"timezone", "locale"} \subseteq DOMAIN tool_result.arg
    /\ tool_result.before # <<>>
    /\ CurrentFields(tool_result.participant_id)["habit_domain"] = "coffee"
    /\ CurrentFields(tool_result.participant_id)["preferred_time"] = None

\* C27: a returned route call that began in a concrete state, whose handler carried
\* out no transition for its participant and during which nobody else wrote that
\* participant's state, returns the state it began in, and that state is still the
\* persisted one.
C27_NoTransitionKeepsState ==
    \A c \in Calls :
        (Returned(c) /\ calls[c].requested = None /\ ~calls[c].touched
            /\ calls[c].state_before \in ConversationState)
        => /\ calls[c].updated_state = calls[c].state_before
           /\ calls[c].read_state = calls[c].state_before
           /\ Persisted(calls[c].participant_id) = calls[c].state_before

C27_Witness ==
    \E c \in Calls :
        /\ Returned(c) /\ calls[c].requested = None /\ ~calls[c].touched
        /\ calls[c].state_before = "CONVERSATION_ACTIVE"
        /\ calls[c].handler = "coordinator"
        /\ calls[c].updated_state = "CONVERSATION_ACTIVE"

\* the handler the routing table gives a state
HandlerOf(state) ==
    CASE state = "INTAKE" -> "intake"
      [] state = "FEEDBACK" -> "feedback"
      [] OTHER -> "coordinator"

\* C28: a call whose handler carried out a transition keeps the handler chosen from
\* the state it read, and that one handler has added one USER and one ASSISTANT row
\* when the call returns; the next call of the participant, beginning in the state
\* the previous call moved to, is handled by the handler of that state.
C28_NoRedispatch ==
    \A c \in Calls :
        LET p == calls[c].participant_id
            previous == log[p][Len(log[p])]
        IN  /\ calls[c].requested # None =>
                  /\ calls[c].handler = HandlerOf(calls[c].current_state)
                  /\ Returned(c) =>
                        Len(conversation_history[p]) = calls[c].history_before + 2
            /\ (Active(c) /\ calls[c].handler # "none" /\ ~calls[c].touched
                    /\ Len(log[p]) > 0 /\ previous[4] # None
                    /\ calls[c].state_before = previous[4])
                => calls[c].handler = HandlerOf(previous[4])

C28_Witness ==
    \E c \in Calls :
        /\ Active(c) /\ calls[c].handler = "coordinator" /\ ~calls[c].touched
        /\ Len(log[calls[c].participant_id]) = 1
        /\ log[calls[c].participant_id][1][3] = "intake"
        /\ log[calls[c].participant_id][1][4] = "COORDINATOR"
        /\ calls[c].state_before = "COORDINATOR"
        /\ Len(conversation_history[calls[c].participant_id]) >= 2

\* C29 as stated: the step that writes the default leaves a concrete state, written
\* by somebody else since the call read that there was none, as the persisted state.
C29_DefaultKeepsConcrete ==
    [][\A c \in Calls :
          (calls[c].pc = "set_default" /\ calls'[c].pc = "get_history"
              /\ flow_states[calls[c].participant_id] \in ConversationState)
          => flow_states'[calls[c].participant_id] = flow_states[calls[c].participant_id]]_vars


\* C30: with the core as the only writer, every participant's persisted state is
\* absent or one of the four enumerated values, a state once set never becomes absent
\* again, and the state a completed route call returns is one of the four values.
C30_StateDomain ==
    /\ [](\A p \in Participants : flow_states[p] \in ConversationState \cup {NoRow})
    /\ [][\A p \in Participants : flow_states[p] # NoRow => flow_states'[p] # NoRow]_vars
    /\ [](\A c \in Calls : Returned(c) => calls[c].updated_state \in ConversationState)

\* an unknown label has just been refused for a participant whose completed call
\* returned one of the four values, while another participant still has no state
C30_Witness ==
    /\ tool_result.tool = "transition_state"
    /\ tool_result.arg = UnknownLabel
    /\ tool_result.result = "Error: Invalid state"
    /\ \E c \in Calls :
          /\ Returned(c)
          /\ tool_result.participant_id = calls[c].participant_id
          /\ calls[c].updated_state \in ConversationState
          /\ flow_states[calls[c].participant_id] = calls[c].updated_state
    /\ \E p \in Participants : flow_states[p] = NoRow

\* the last element of a presented message sequence, and the elements before it
LastPresented == tool_result.result[Len(tool_result.result)]
PresentedHistory == SubSeq(tool_result.result, 1, Len(tool_result.result) - 1)

\* the stored history as the handler bounds it, without its SYSTEM rows, as pairs
BoundedPairs(q, limit) ==
    LET hist == get_conversation_history(conversation_history, q)
        bounded == IF limit > 0 THEN LastN(hist, limit) ELSE hist
        kept == SelectSeq(bounded, LAMBDA row : row.role # "system")
    IN  [i \in 1..Len(kept) |->
            <<IF kept[i].role = "user" THEN "human" ELSE "ai", kept[i].content>>]

\* C31: the sequence a handler gives to generation is the bounded stored history in
\* stored order with SYSTEM rows omitted, followed by exactly one human element; that
\* element is the inbound message, and for the intake handler with a stored profile
\* the inbound message followed by the profile's context.
C31_SequenceIsHistoryThenInput ==
    tool_result.tool = "present_messages" =>
        LET q == tool_result.participant_id
            limit == tool_result.arg[1]
            m == tool_result.arg[2]
            enhanced == tool_result.caller = "intake" /\ has_user_profile(user_profiles, q)
        IN  /\ Len(tool_result.result) >= 1
            /\ PresentedHistory = BoundedPairs(q, limit)
            /\ LastPresented[1] = "human"
            /\ LastPresented[2][1] = m
            /\ ~enhanced => LastPresented[2] = <<m>>
            /\ enhanced =>
                  LastPresented[2] =
                      <<m>> \o to_context_string(get_user_profile(user_profiles, q, clock))

\* the intake handler presents a bounded history that had a SYSTEM row to omit and
\* rows to cut, for a participant with a profile
C31_Witness ==
    /\ tool_result.tool = "present_messages"
    /\ tool_result.caller = "intake"
    /\ has_user_profile(user_profiles, tool_result.participant_id)
    /\ tool_result.arg[1] = 2
    /\ Len(conversation_history[tool_result.participant_id]) = 3
    /\ conversation_history[tool_result.participant_id][3].role = "system"
    /\ Len(tool_result.result) = 2
    /\ LastPresented[2][1] = tool_result.arg[2]
    /\ Len(LastPresented[2]) > 1

\* C31 as stated: the last element given to generation is the current inbound message.
C31_LastIsInbound ==
    tool_result.tool = "present_messages" =>
        LastPresented = <<"human", <<tool_result.arg[2]>>>>

\* call c takes a step of its own (another writer's step changes neither field)
StepOf(c) ==
    calls'[c].pc # calls[c].pc \/ calls'[c].tool_calls # calls[c].tool_calls

\* C32: every step of a turn inside the coordinator handler leaves state, profile and
\* state data of every participant and the history of the others unchanged and at most
\* appends one message to the participant's history; when the handler has finished,
\* with generation succeeded or failed, the history is the one the turn started from
\* followed by the USER message and the ASSISTANT response.
C32_CoordinatorOnlyAppendsTwo ==
    /\ [][\A c \in Calls :
            (calls[c].handler = "coordinator" /\ InHandler(c) /\ StepOf(c)) =>
                LET p == calls[c].participant_id
                IN  /\ flow_states' = flow_states
                    /\ user_profiles' = user_profiles
                    /\ flow_state_data' = flow_state_data
                    /\ \A q \in Participants \ {p} :
                          conversation_history'[q] = conversation_history[q]
                    /\ \/ conversation_history'[p] = conversation_history[p]
                       \/ /\ Len(conversation_history'[p]) = Len(conversation_history[p]) + 1
                          /\ SubSeq(conversation_history'[p], 1, Len(conversation_history[p]))
                                = conversation_history[p]]_vars
    /\ [](\A c \in Calls :
            (calls[c].handler = "coordinator" /\ calls[c].pc \in {"reread", "returned"}) =>
                LET p == calls[c].participant_id
                    n == Len(conversation_history[p])
                IN  /\ n = calls[c].history_before + 2
                    /\ conversation_history[p][n - 1].role = "user"
                    /\ conversation_history[p][n - 1].content = calls[c].user_message
                    /\ conversation_history[p][n].role = "assistant"
                    /\ conversation_history[p][n].content = calls[c].response
                    /\ calls[c].gen_failed => calls[c].response = Apology)

\* a second turn handled by the coordinator has returned after generation failed
C32_Witness ==
    \E c \in Calls :
        /\ calls[c].handler = "coordinator" /\ Returned(c) /\ calls[c].gen_failed
        /\ calls[c].history_before = 2
        /\ Len(conversation_history[calls[c].participant_id]) = 4

\* the call raised StoreUnavailable after generation had produced its response: the
\* append of the ASSISTANT message, or the reread after it, failed
FailedAfterGeneration(c) ==
    /\ calls[c].pc = "raised"
    /\ calls[c].error = "StoreUnavailable"
    /\ calls[c].response # ""

\* C33: the step in which a route call raises commits nothing and undoes nothing, a
\* call that has raised writes nothing afterwards, and when the failure came after
\* generation the turn's USER message is still in the history and a transition the
\* turn had committed is still the persisted state.
C33_CommittedWritesKept ==
    /\ [][\A c \in Calls :
            ((calls'[c].pc = "raised" \/ calls[c].pc = "raised") /\ StepOf(c))
                => store' = store]_vars
    /\ [](\A c \in Calls :
            FailedAfterGeneration(c) =>
                LET p == calls[c].participant_id
                    k == calls[c].history_before + 1
                IN  /\ Len(conversation_history[p]) >= k
                    /\ conversation_history[p][k].role = "user"
                    /\ conversation_history[p][k].content = calls[c].user_message
                    /\ (calls[c].requested # None /\ ~calls[c].touched)
                          => flow_states[p] = calls[c].requested)

\* the intake handler's append of the ASSISTANT message failed after the turn had
\* moved the participant to FEEDBACK: one message of the turn is stored
C33_Witness ==
    \E c \in Calls :
        /\ FailedAfterGeneration(c)
        /\ calls[c].handler = "intake"
        /\ calls[c].requested = "FEEDBACK"
        /\ flow_states[calls[c].participant_id] = "FEEDBACK"
        /\ Len(conversation_history[calls[c].participant_id]) = calls[c].history_before + 1

\* the five fields get_user_profile returns for q
ReadBack(q) == get_user_profile(user_profiles, q, clock).fields

\* C34: a profile save that found no profile and then wrote leaves a profile whose
\* five fields are the arguments, the omitted ones unset; right after
\* save_user_profile, get_user_profile returns the five fields as saved; and
\* get_user_profile returns nothing as long as nothing has been written.
C34_CreateAndRoundTrip ==
    /\ [][\A k \in Tasks :
            (profile_save[k].pc = "read" /\ profile_save[k].existing = <<>>
                /\ profile_save'[k].pc = "idle" /\ ~tool_result'.failed)
            => LET q == profile_save[k].participant_id
               IN  /\ has_user_profile(user_profiles', q)
                   /\ get_user_profile(user_profiles', q, clock').fields
                        = profile_save[k].args]_vars
    /\ [](tool_result.tool = "store.save_user_profile" =>
            /\ has_user_profile(user_profiles, tool_result.participant_id)
            /\ ReadBack(tool_result.participant_id) = tool_result.arg)
    /\ [](profile_ops = 0 => \A q \in Participants : ~has_user_profile(user_profiles, q))

\* a save of two fields has just created the participant's profile: the other three
\* fields read back unset
C34_Witness ==
    /\ tool_result.tool = "save_user_profile"
    /\ ~tool_result.failed
    /\ tool_result.before = <<>>
    /\ tool_result.arg["habit_domain"] = "fitness"
    /\ tool_result.arg["preferred_time"] = "coffee"
    /\ has_user_profile(user_profiles, tool_result.participant_id)
    /\ ReadBack(tool_result.participant_id) = tool_result.arg
    /\ Cardinality({f \in ProfileFields : ReadBack(tool_result.participant_id)[f] = None}) = 3

\* the handler of c has appended the turn's USER message
PastAddUser(c) ==
    calls[c].pc \in {"agent", "tool_profile", "add_assistant", "reread", "returned"}

\* C35: once the intake handler has appended the turn's USER message, the row it
\* appended holds the message passed to route, with or without a stored profile.
C35_IntakeRecordsRawMessage ==
    \A c \in Calls :
        (calls[c].handler = "intake" /\ PastAddUser(c)) =>
            LET p == calls[c].participant_id
                k == calls[c].history_before + 1
            IN  /\ Len(conversation_history[p]) >= k
                /\ conversation_history[p][k].role = "user"
                /\ conversation_history[p][k].content = calls[c].user_message

\* an intake turn whose input to generation carried the profile context has returned
C35_Witness ==
    \E c \in Calls :
        /\ calls[c].handler = "intake" /\ Returned(c)
        /\ Len(calls[c].input) > 1
        /\ calls[c].input[1] = calls[c].user_message
        /\ has_user_profile(user_profiles, calls[c].participant_id)

\* C36: a run of the schedule tool leaves state, history and profile of everybody and
\* every state-data entry other than the given participant's "schedule" unchanged;
\* when it succeeds that entry reads back as the requested time, the message
\* ("personalized" when none was given) and enabled = true, whatever it held before,
\* and when the store fails it is left as it was.
C36_ScheduleWritesOneKey ==
    [][(tool_result'.tool = "schedule_daily_prompt" /\ tool_result'.caller = "direct") =>
        LET q == tool_result'.participant_id
            time == tool_result'.arg[1]
            message == tool_result'.arg[2]
        IN  /\ flow_states' = flow_states
            /\ conversation_history' = conversation_history
            /\ user_profiles' = user_profiles
            /\ \A r \in Participants, key \in StateDataKeys :
                  (r # q \/ key # "schedule")
                      => flow_state_data'[r][key] = flow_state_data[r][key]
            /\ IF tool_result'.failed
               THEN flow_state_data'[q]["schedule"] = flow_state_data[q]["schedule"]
               ELSE get_state_data(flow_state_data', q, "schedule")
                        = [time |-> time,
                           message |-> IF message = None THEN "personalized" ELSE message,
                           enabled |-> TRUE]]_vars

\* a schedule without a message has replaced an earlier one with a message, next to
\* another key of the same participant that is still what it was
C36_Witness ==
    /\ tool_result.tool = "schedule_daily_prompt"
    /\ ~tool_result.failed
    /\ tool_result.arg[2] = None
    /\ tool_result.before["schedule"] # <<>>
    /\ json_loads(tool_result.before["schedule"][1]).message = "stretch"
    /\ tool_result.before["notes"] # <<>>
    /\ flow_state_data[tool_result.participant_id]["notes"] = tool_result.before["notes"]
    /\ get_state_data(flow_state_data, tool_result.participant_id, "schedule").message
          = "personalized"

\* C37: a run of the prompt generator writes nothing to the store and returns a text;
\* without a profile the text is the fixed default prompt and generation is not
\* invoked; when the profile read or the generation fails the text is the same
\* default prompt; otherwise it is the generated text.
C37_PromptGeneratorFallsBack ==
    [][(tool_result'.tool = "generate_habit_prompt" /\ tool_result'.caller = "direct") =>
        LET q == tool_result'.participant_id
            run == tool_result'.arg
        IN  /\ store' = store
            /\ tool_result'.result \in {DefaultPrompt, run.generated}
            /\ ~has_user_profile(user_profiles, q) =>
                  /\ ~run.invoked
                  /\ tool_result'.result = DefaultPrompt
            /\ (run.read_fails \/ run.generation_fails) => tool_result'.result = DefaultPrompt
            /\ (has_user_profile(user_profiles, q) /\ ~run.read_fails /\ ~run.generation_fails)
                  => (run.invoked /\ tool_result'.result = run.generated)]_vars

\* the generation failed for a participant with a profile: the default prompt
C37_Witness ==
    /\ tool_result.tool = "generate_habit_prompt"
    /\ tool_result.caller = "direct"
    /\ has_user_profile(user_profiles, tool_result.participant_id)
    /\ tool_result.arg.invoked
    /\ tool_result.arg.generation_fails
    /\ tool_result.result = DefaultPrompt

\* C38: every route call in flight eventually returns or raises, and as long as it is
\* in flight its next step can be taken whatever the other call is doing: it waits
\* for no other call and for no lock.
C38_RouteTerminates ==
    /\ \A c \in Calls : Active(c) ~> (Returned(c) \/ calls[c].pc = "raised")
    /\ [](\A c \in Calls : Active(c) => ENABLED CallStep(c))

\* two overlapping calls for the same participant have both ended, one with its
\* result and one with an error
C38_Witness ==
    /\ Returned("c1")
    /\ calls["c2"].pc = "raised"
    /\ Len(conversation_history[SameParticipant]) >= 2
    /\ conversation_history[SameParticipant][1].content = "hi"
    /\ conversation_history[SameParticipant][2].content = "hello"

====
